---- MODULE Spec2Model ----
(***************************************************************************)
(* Memory-layout engine of brainstorm (brainstorm/structure/buffers.py):   *)
(* ParameterBuffer, InOutBuffer and BufferManager.                         *)
(*                                                                         *)
(* A region (a numpy array) is a record of its identity and its length.    *)
(* An allocation yields an identity that no handle, buffer or view of the  *)
(* current state refers to: a region nothing refers to any more cannot be  *)
(* told from a new one.  A view is the record of what it was carved from:  *)
(* region, offset, logical shape, feature range.                           *)
(***************************************************************************)
EXTENDS Integers, Sequences, FiniteSets, TLC

VARIABLES
    parameters, gradient,                      \* BufferManager's ParameterBuffers
    inputs, outputs, in_deltas, out_deltas,    \* BufferManager's InOutBuffers
    fwd_shape, bwd_shape,
    param_memory, grad_memory, fwd_memory, bwd_memory,
    buf,           \* an InOutBuffer driven directly by a caller
    pbuf,          \* a ParameterBuffer driven directly by a caller
    last           \* the last call: operation, arguments, outcome, what it did

mgrVars == <<parameters, gradient, inputs, outputs, in_deltas, out_deltas,
             fwd_shape, bwd_shape, param_memory, grad_memory, fwd_memory,
             bwd_memory>>
vars == <<parameters, gradient, inputs, outputs, in_deltas, out_deltas,
          fwd_shape, bwd_shape, param_memory, grad_memory, fwd_memory,
          bwd_memory, buf, pbuf, last>>

----------------------------------------------------------------------------
(* Bounds *)

\* timesteps range over 0..MaxT
MaxT == 2
\* sequences range over 0..MaxS
MaxS == 1

----------------------------------------------------------------------------
(* Values *)

\* Python's None, for a region handle
None == [id |-> <<"None", 0>>, len |-> 0]
\* the empty list that fwd_memory and bwd_memory start as: no region, length 0
EmptyList == [id |-> <<"[]", 0>>, len |-> 0]
\* Python's None, for a shape
NoShape == <<>>
\* the outcome of a call that returns without raising
NoErr == "none"

Min(a, b) == IF a < b THEN a ELSE b
Max(a, b) == IF a > b THEN a ELSE b

RECURSIVE SumSeq(_)
SumSeq(s) == IF s = <<>> THEN 0 ELSE Head(s) + SumSeq(Tail(s))

\* shape[:2]
Trunc(shape) == SubSeq(shape, 1, Min(2, Len(shape)))

\* len(memory) for a region handle or the initial []
MemLen(m) == m.len

\* the regions a ParameterBuffer or InOutBuffer refers to
BufferRefs(b) == {b.memory} \cup {b.views[n].mem : n \in DOMAIN b.views}

\* the least k >= 1 such that no region of `used` has identity <<site, k>>
RECURSIVE FreshFrom(_, _, _)
FreshFrom(site, used, k) ==
    IF \E m \in used : m.id = <<site, k>>
    THEN FreshFrom(site, used, k + 1)
    ELSE k

\* an allocator that pads every region by one element
allocatePadded(site, used, size) ==
    [id |-> <<site, FreshFrom(site, used, 1)>>, len |-> size + 1]

\* an allocator that hands out one cached region per size
allocateCached(site, used, size) == [id |-> <<"cache", size>>, len |-> size]

\* np.zeros(size) called at `site`: a region distinct from those in `used`
allocate(site, used, size) ==
    [id |-> <<site, FreshFrom(site, used, 1)>>, len |-> size]

\* what may follow the first two dimensions of a shape; the code reads the
\* first two only
Trailing == {<<>>, <<5>>}

Shapes == {<<t, s>> \o rest : t \in 0..MaxT, s \in 0..MaxS, rest \in Trailing}

NoViews == [n \in {} |-> None]

----------------------------------------------------------------------------
(* Layout descriptors, as create_param_layout / create_in_out_layout give   *)
(* them: layers A, B, C; A feeds B (hub 1), B feeds C (hub 2).              *)

HubSizes == <<2, 1>>
SourceHubs == <<[n \in {"A"} |-> <<0, 2>>], [n \in {"B"} |-> <<0, 1>>]>>
SinkHubs == <<[n \in {"B"} |-> <<0, 2>>], [n \in {"C"} |-> <<0, 1>>]>>
ParamLayout == [size |-> 3,
                layout |-> [n \in {"B", "C"} |->
                              IF n = "B" THEN <<0, 2>> ELSE <<2, 3>>]]

\* ParameterBuffer.__init__
NewParameterBuffer(param_layout) ==
    [size |-> param_layout.size, layout |-> param_layout.layout,
     memory |-> None, views |-> NoViews]

\* InOutBuffer.__init__
NewInOutBuffer(hub_sizes, layouts) ==
    [hub_sizes |-> hub_sizes, size |-> 0, layouts |-> layouts,
     memory |-> None, shape |-> NoShape, views |-> NoViews]

----------------------------------------------------------------------------
(* ParameterBuffer *)

\* a region comparison by length where the code compares by identity
SameLength(a, b) == a.len = b.len

\* memory is self.memory
SameRegion(a, b) == a = b

\* a ParameterBuffer that accepts any region that is long enough
AtLeastSize(len, size) == len >= size

\* the size assertion of ParameterBuffer._relocate_internal_memory
ExactSize(len, size) == len = size

\* ParameterBuffer._relocate_internal_memory
RelocateInternalMemory(p, memory) ==
    IF memory = None
    THEN [buf |-> p, err |-> "NoMemoryGiven", relocated |-> FALSE]
    ELSE IF SameRegion(memory, p.memory)
    THEN [buf |-> p, err |-> NoErr, relocated |-> FALSE]
    ELSE IF ~ExactSize(MemLen(memory), p.size)
    THEN [buf |-> p, err |-> "SizeMismatch", relocated |-> FALSE]
    ELSE [buf |-> [p EXCEPT !.memory = memory], err |-> NoErr,
          relocated |-> TRUE]

\* ParameterBuffer._lay_out: the layer's factory applied to get_raw(layer)
ParamLayOut(p) ==
    [n \in DOMAIN p.layout |->
        [factory |-> n, mem |-> p.memory,
         lo |-> p.layout[n][1], hi |-> p.layout[n][2]]] @@ p.views

\* ParameterBuffer.rearrange after _relocate_internal_memory returned r
AfterRelocate(r) ==
    IF r.err = NoErr /\ r.relocated
    THEN [buf |-> [r.buf EXCEPT !.views = ParamLayOut(r.buf)],
          err |-> NoErr, laid |-> TRUE]
    ELSE [buf |-> r.buf, err |-> r.err, laid |-> FALSE]

\* ParameterBuffer.rearrange: the buffer after the call, the error raised (if
\* any) and whether _lay_out ran
ParamRearrange(p, memory) == AfterRelocate(RelocateInternalMemory(p, memory))

----------------------------------------------------------------------------
(* InOutBuffer *)

\* InOutBuffer.get_size
GetSize(b, shape) == shape[1] * shape[2] * SumSeq(b.hub_sizes)

\* the capacity assertions of InOutBuffer._resize_internal_memory
Fits(len, size) == len >= size

\* InOutBuffer._resize_internal_memory
ResizeInternalMemory(b, memory) ==
    IF memory = None
    THEN IF b.memory = None
         THEN [buf |-> b, err |-> "NoMemory", relocated |-> FALSE]
         ELSE IF ~Fits(MemLen(b.memory), b.size)
         THEN [buf |-> b, err |-> "Insufficient", relocated |-> FALSE]
         ELSE [buf |-> b, err |-> NoErr, relocated |-> FALSE]
    ELSE IF SameRegion(memory, b.memory)
    THEN [buf |-> b, err |-> NoErr, relocated |-> FALSE]
    ELSE IF ~Fits(MemLen(memory), b.size)
    THEN [buf |-> b, err |-> "Insufficient", relocated |-> FALSE]
    ELSE [buf |-> [b EXCEPT !.memory = memory], err |-> NoErr,
          relocated |-> TRUE]

\* the views of hub k, carved at offset i: hub_buffer[:, :, feature_slice]
HubViews(b, k, i) ==
    LET F == b.hub_sizes[k]
        layout == b.layouts[k]
    IN  [n \in DOMAIN layout |->
            [mem |-> b.memory, off |-> i, hub |-> F,
             lo |-> Min(layout[n][1], F), hi |-> Min(layout[n][2], F),
             shape |-> <<b.shape[1], b.shape[2],
                         Max(0, Min(layout[n][2], F) - Min(layout[n][1], F))>>]]

\* a _lay_out that advances the offset by the hub's width, not by its size
RECURSIVE LayOutFromByWidth(_, _, _, _)
LayOutFromByWidth(b, k, i, views) ==
    IF k > Min(Len(b.hub_sizes), Len(b.layouts))
    THEN [views |-> views, err |-> NoErr]
    ELSE LET hub_size == b.shape[1] * b.shape[2] * b.hub_sizes[k]
             len == MemLen(b.memory)
             got == Min(len, i + hub_size) - Min(len, i)
         IN  IF got # hub_size
             THEN [views |-> views, err |-> "ValueError"]
             ELSE LayOutFromByWidth(b, k + 1, i + b.hub_sizes[k],
                                    HubViews(b, k, i) @@ views)

\* InOutBuffer._lay_out from hub k on.  memory[i:i+hub_size] is clipped to the
\* region, and reshape raises ValueError unless it has exactly hub_size
\* elements; the views of the hubs before the failing one are already stored.
RECURSIVE LayOutFrom(_, _, _, _)
LayOutFrom(b, k, i, views) ==
    IF k > Min(Len(b.hub_sizes), Len(b.layouts))
    THEN [views |-> views, err |-> NoErr]
    ELSE LET hub_size == b.shape[1] * b.shape[2] * b.hub_sizes[k]
             len == MemLen(b.memory)
             got == Min(len, i + hub_size) - Min(len, i)
         IN  IF got # hub_size
             THEN [views |-> views, err |-> "ValueError"]
             ELSE LayOutFrom(b, k + 1, i + hub_size,
                             HubViews(b, k, i) @@ views)

\* InOutBuffer._lay_out
LayOut(b) == LayOutFrom(b, 1, 0, b.views)

\* self.shape != shape[:2]
ShapeChanged(old, new) == old # new

\* if relocated or shape_changed
MustLayOut(relocated, shape_changed) == relocated \/ shape_changed

\* the end of InOutBuffer.rearrange, after _lay_out returned l
AfterLayOut(b, l) ==
    [buf |-> [b EXCEPT !.views = l.views], err |-> l.err, laid |-> TRUE]

\* InOutBuffer.rearrange after _resize_internal_memory returned r (or raised)
AfterResize(r, shape_changed) ==
    IF r.err # NoErr
    THEN [buf |-> r.buf, err |-> r.err, laid |-> FALSE]
    ELSE IF MustLayOut(r.relocated, shape_changed)
    THEN AfterLayOut(r.buf, LayOut(r.buf))
    ELSE [buf |-> r.buf, err |-> NoErr, laid |-> FALSE]

\* InOutBuffer.rearrange: the buffer after the call, the error raised (if any)
\* and whether _lay_out ran
InOutRearrange(b, shape, memory) ==
    AfterResize(
        ResizeInternalMemory([b EXCEPT !.shape = Trunc(shape),
                                       !.size = GetSize(b, Trunc(shape))],
                             memory),
        ShapeChanged(b.shape, Trunc(shape)))

----------------------------------------------------------------------------
(* BufferManager *)

\* copy(buffer): a new object with the same attributes and the same items
copy(b) == [f \in DOMAIN b |-> b[f]]

\* the record of a call, kept in `last`
Call(op, shape, mem, err, allocs, laid) ==
    [op |-> op, shape |-> shape, mem |-> mem, err |-> err,
     allocs |-> allocs, laid |-> laid]

NoCall == Call("init", NoShape, None, NoErr, 0, {})

\* a manager that compares fwd_shape with the whole shape
FwdPreparedWhole(prev, shape) == prev = shape

\* if self.fwd_shape == shape[:2]: return
FwdPrepared(prev, shape) == prev = Trunc(shape)

\* if self.bwd_shape == self.fwd_shape: return
BwdPrepared(bwd, fwd) == bwd = fwd

\* a manager that allocates the parameter region on every call
ParamAlwaysAllocate(m) == TRUE

\* if self.param_memory is None
ParamNotAllocated(m) == m = None

\* a manager that allocates the gradient region on every backward preparation
GradAlwaysAllocate(m) == TRUE

\* if self.grad_memory is None
GradNotAllocated(m) == m = None

\* a manager that also replaces a region of exactly the required length
NeedsGrowthOrEqual(len, size) == len <= size

\* a manager that allocates whenever the length differs from the size needed
NeedsGrowthOnChange(len, size) == len # size

\* if len(self.fwd_memory) < in_size / if len(self.bwd_memory) < deltas_size
NeedsGrowth(len, size) == len < size

\* a manager whose delta buffers are copied from the wrong buffers
MgrInitSwapped ==
    /\ parameters = NewParameterBuffer(ParamLayout)
    /\ gradient = copy(NewParameterBuffer(ParamLayout))
    /\ inputs = NewInOutBuffer(HubSizes, SinkHubs)
    /\ outputs = NewInOutBuffer(HubSizes, SourceHubs)
    /\ in_deltas = copy(NewInOutBuffer(HubSizes, SourceHubs))
    /\ out_deltas = copy(NewInOutBuffer(HubSizes, SinkHubs))
    /\ fwd_shape = NoShape
    /\ bwd_shape = NoShape
    /\ param_memory = None
    /\ grad_memory = None
    /\ fwd_memory = EmptyList
    /\ bwd_memory = EmptyList

\* BufferManager.create_from_layers and BufferManager.__init__
MgrInit ==
    /\ parameters = NewParameterBuffer(ParamLayout)
    /\ gradient = copy(NewParameterBuffer(ParamLayout))
    /\ inputs = NewInOutBuffer(HubSizes, SinkHubs)
    /\ outputs = NewInOutBuffer(HubSizes, SourceHubs)
    /\ in_deltas = copy(NewInOutBuffer(HubSizes, SinkHubs))
    /\ out_deltas = copy(NewInOutBuffer(HubSizes, SourceHubs))
    /\ fwd_shape = NoShape
    /\ bwd_shape = NoShape
    /\ param_memory = None
    /\ grad_memory = None
    /\ fwd_memory = EmptyList
    /\ bwd_memory = EmptyList

\* every region the manager, its buffers or their views refer to
Live ==
    {param_memory, grad_memory, fwd_memory, bwd_memory}
    \cup BufferRefs(parameters) \cup BufferRefs(gradient)
    \cup BufferRefs(inputs) \cup BufferRefs(outputs)
    \cup BufferRefs(in_deltas) \cup BufferRefs(out_deltas)

\* the part of rearrange_parameters after the allocation of region m
BindParameters(m, r) ==
    /\ param_memory' = m
    /\ parameters' = r.buf
    /\ last' = Call("rearrange_parameters", NoShape, None, r.err, 1,
                    IF r.laid THEN {"parameters"} ELSE {})

\* a rearrange_parameters that binds the parameter region to gradient too
RearrangeParametersBoth ==
    /\ IF ParamNotAllocated(param_memory)
       THEN LET m == allocate("param", Live, parameters.size)
            IN  /\ BindParameters(m, ParamRearrange(parameters, m))
                /\ gradient' = ParamRearrange(gradient, m).buf
       ELSE /\ last' = Call("rearrange_parameters", NoShape, None, NoErr,
                            0, {})
            /\ UNCHANGED <<param_memory, parameters, gradient>>
    /\ UNCHANGED <<inputs, outputs, in_deltas, out_deltas,
                   fwd_shape, bwd_shape, grad_memory, fwd_memory, bwd_memory,
                   buf, pbuf>>

\* BufferManager.rearrange_parameters
RearrangeParameters ==
    /\ IF ParamNotAllocated(param_memory)
       THEN LET m == allocate("param", Live, parameters.size)
            IN  BindParameters(m, ParamRearrange(parameters, m))
       ELSE /\ last' = Call("rearrange_parameters", NoShape, None, NoErr,
                            0, {})
            /\ UNCHANGED <<param_memory, parameters>>
    /\ UNCHANGED <<gradient, inputs, outputs, in_deltas, out_deltas,
                   fwd_shape, bwd_shape, grad_memory, fwd_memory, bwd_memory,
                   buf, pbuf>>

\* the two rearrange calls of rearrange_fwd, with outcomes r1 and r2; the
\* second is not made when the first raises
BindFwd(shape, grow, r1, r2) ==
    /\ inputs' = r1.buf
    /\ outputs' = IF r1.err = NoErr THEN r2.buf ELSE outputs
    /\ last' = Call("rearrange_fwd", Trunc(shape), None,
                    IF r1.err = NoErr THEN r2.err ELSE r1.err,
                    IF grow THEN 1 ELSE 0,
                    (IF r1.laid THEN {"inputs"} ELSE {}) \cup
                    (IF r1.err = NoErr /\ r2.laid THEN {"outputs"} ELSE {}))

\* BufferManager.rearrange_fwd
RearrangeFwd(shape) ==
    /\ IF FwdPrepared(fwd_shape, shape)
       THEN /\ last' = Call("rearrange_fwd", Trunc(shape), None, NoErr, 0, {})
            /\ UNCHANGED <<fwd_shape, fwd_memory, inputs, outputs>>
       ELSE LET fs == Trunc(shape)
                in_size == GetSize(inputs, fs)
                grow == NeedsGrowth(MemLen(fwd_memory), in_size)
                m == allocate("fwd", Live, in_size)
                arg == IF grow THEN m ELSE None
            IN  /\ fwd_shape' = fs
                /\ fwd_memory' = IF grow THEN m ELSE fwd_memory
                /\ BindFwd(shape, grow, InOutRearrange(inputs, fs, arg),
                           InOutRearrange(outputs, fs, arg))
    /\ UNCHANGED <<parameters, gradient, in_deltas, out_deltas, bwd_shape,
                   param_memory, grad_memory, bwd_memory, buf, pbuf>>

\* the rearrange calls of rearrange_bwd, with outcomes g, r1 and r2; a call
\* is not made when an earlier one raises
BindBwd(fresh, grow, g, r1, r2) ==
    /\ gradient' = g.buf
    /\ in_deltas' = r1.buf
    /\ out_deltas' = IF r1.err = NoErr THEN r2.buf ELSE out_deltas
    /\ last' = Call("rearrange_bwd", NoShape, None,
                    IF r1.err = NoErr THEN r2.err ELSE r1.err,
                    (IF fresh THEN 1 ELSE 0) + (IF grow THEN 1 ELSE 0),
                    (IF g.laid THEN {"gradient"} ELSE {}) \cup
                    (IF r1.laid THEN {"in_deltas"} ELSE {}) \cup
                    (IF r1.err = NoErr /\ r2.laid THEN {"out_deltas"} ELSE {}))

\* BufferManager.rearrange_bwd.  The gradient region has exactly the size
\* gradient.rearrange asserts, so that call does not raise.
RearrangeBwd ==
    /\ IF BwdPrepared(bwd_shape, fwd_shape)
       THEN /\ last' = Call("rearrange_bwd", NoShape, None, NoErr, 0, {})
            /\ UNCHANGED <<bwd_shape, grad_memory, gradient, bwd_memory,
                           in_deltas, out_deltas>>
       ELSE LET fresh == GradNotAllocated(grad_memory)
                gm == allocate("grad", Live, gradient.size)
                deltas_size == GetSize(in_deltas, fwd_shape)
                grow == NeedsGrowth(MemLen(bwd_memory), deltas_size)
                m == allocate("bwd", Live, deltas_size)
                arg == IF grow THEN m ELSE None
            IN  /\ bwd_shape' = fwd_shape
                /\ grad_memory' = IF fresh THEN gm ELSE grad_memory
                /\ bwd_memory' = IF grow THEN m ELSE bwd_memory
                /\ BindBwd(fresh, grow,
                           IF fresh THEN ParamRearrange(gradient, gm)
                           ELSE [buf |-> gradient, err |-> NoErr,
                                 laid |-> FALSE],
                           InOutRearrange(in_deltas, fwd_shape, arg),
                           InOutRearrange(out_deltas, fwd_shape, arg))
    /\ UNCHANGED <<parameters, inputs, outputs, fwd_shape, param_memory,
                   fwd_memory, buf, pbuf>>

Init ==
    /\ MgrInit
    /\ buf = NewInOutBuffer(HubSizes, SinkHubs)
    /\ pbuf = NewParameterBuffer(ParamLayout)
    /\ last = NoCall

Next ==
    \/ RearrangeParameters
    \/ \E shape \in Shapes : RearrangeFwd(shape)
    \/ RearrangeBwd

\* a BufferManager built by create_from_layers, under any sequence of calls
Spec == Init /\ [][Next]_vars

----------------------------------------------------------------------------
(* A ParameterBuffer and an InOutBuffer driven directly, with the regions   *)
(* the caller holds.                                                        *)

\* the lengths of the caller's regions; some have equal lengths and differ
\* by identity only
Pool == <<2, 3, 3, 4, 6>>

Regions ==
    {None} \cup {[id |-> <<"pool", i>>, len |-> Pool[i]] : i \in DOMAIN Pool}

\* buf.rearrange(shape, memory), with outcome r
IOBind(shape, memory, r) ==
    /\ buf' = r.buf
    /\ last' = Call("io_rearrange", Trunc(shape), memory, r.err, 0,
                    IF r.laid THEN {"buf"} ELSE {})

\* a call of buf.rearrange(shape, memory)
IORearrange(shape, memory) ==
    /\ IOBind(shape, memory, InOutRearrange(buf, shape, memory))
    /\ UNCHANGED <<mgrVars, pbuf>>

\* pbuf.rearrange(memory), with outcome r
PBBind(memory, r) ==
    /\ pbuf' = r.buf
    /\ last' = Call("pb_rearrange", NoShape, memory, r.err, 0,
                    IF r.laid THEN {"pbuf"} ELSE {})

\* a call of pbuf.rearrange(memory)
PBRearrange(memory) ==
    /\ PBBind(memory, ParamRearrange(pbuf, memory))
    /\ UNCHANGED <<mgrVars, buf>>

BufNext ==
    \/ \E shape \in Shapes, memory \in Regions : IORearrange(shape, memory)
    \/ \E memory \in Regions : PBRearrange(memory)

\* the two buffers, under any sequence of rearrange calls
SpecBuf == Init /\ [][BufNext]_vars

----------------------------------------------------------------------------
(* Properties.  `last` is the call that led to the current state, so in a   *)
(* step formula last' is the call the step makes.                           *)

IsRegion(m) == m # None /\ m # EmptyList

\* the last call was `op` and returned without raising
Returned(op) == last.op = op /\ last.err = NoErr

\* C1: rearrange_fwd replaces the forward region only when the size the new
\* shape needs exceeds the region's length, and keeps the very same region
\* otherwise; so the region's length never decreases, and preparing A, a
\* larger B, then A again leaves the region allocated for B bound.
C1_FwdGrowthOnly ==
    [][/\ fwd_memory' # fwd_memory =>
            /\ last'.op = "rearrange_fwd"
            /\ GetSize(inputs, last'.shape) > MemLen(fwd_memory)
       /\ (last'.op = "rearrange_fwd"
           /\ GetSize(inputs, last'.shape) <= MemLen(fwd_memory))
          => fwd_memory' = fwd_memory
       /\ MemLen(fwd_memory') >= MemLen(fwd_memory)]_vars

\* C1 witness: a forward preparation returned with a region longer than the
\* shape needs (a smaller shape prepared after a larger one), without
\* allocating.
C1_Witness ==
    /\ Returned("rearrange_fwd")
    /\ last.allocs = 0
    /\ last.laid = {"inputs", "outputs"}
    /\ IsRegion(fwd_memory)
    /\ 0 < GetSize(inputs, fwd_shape)
    /\ GetSize(inputs, fwd_shape) < MemLen(fwd_memory)

\* C2: rearrange_fwd with a shape whose first two dimensions are the prepared
\* forward shape returns without allocating or laying out anything, and
\* fwd_shape, the forward region and the buffers inputs and outputs (shape,
\* region, views) are as before the call.
C2_FwdIdempotent ==
    [][(last'.op = "rearrange_fwd" /\ last'.shape = fwd_shape) =>
            /\ last'.err = NoErr
            /\ last'.allocs = 0
            /\ last'.laid = {}
            /\ UNCHANGED <<fwd_shape, fwd_memory, inputs, outputs>>]_vars

\* C2 witness: a prepared manager (inputs and outputs laid out in the forward
\* region) after a forward call that did nothing.
C2_Witness ==
    /\ Returned("rearrange_fwd")
    /\ last.allocs = 0
    /\ last.laid = {}
    /\ last.shape = fwd_shape
    /\ IsRegion(fwd_memory)
    /\ inputs.memory = fwd_memory
    /\ inputs.views # NoViews
    /\ outputs.views # NoViews

\* every view the InOutBuffer b holds was carved from b's region with b's shape
ViewsCurrent(b) ==
    \A n \in DOMAIN b.views :
        /\ b.views[n].mem = b.memory
        /\ SubSeq(b.views[n].shape, 1, 2) = b.shape

\* C3: whenever InOutBuffer.rearrange returns without error, after any earlier
\* calls (failed ones included), every layer view the buffer holds was carved
\* from its current region with its current shape.
C3_ViewsConsistent ==
    Returned("io_rearrange") => ViewsCurrent(buf)

\* C4: after every InOutBuffer.rearrange that returns without error, whatever
\* the shape and the region argument, the held region is at least as long as
\* the buffer's size, timesteps * sequences * sum(hub_sizes).
C4_Capacity ==
    Returned("io_rearrange") =>
        /\ buf.size = buf.shape[1] * buf.shape[2] * SumSeq(buf.hub_sizes)
        /\ buf.memory # None
        /\ MemLen(buf.memory) >= buf.size

\* C5: whenever rearrange_fwd(shape) returns without error, in any reachable
\* state, inputs and outputs are bound to one region, which is the manager's
\* forward region, and both have shape shape[:2].
C5_SharedFwdRegion ==
    Returned("rearrange_fwd") =>
        /\ IsRegion(fwd_memory)
        /\ inputs.memory = fwd_memory
        /\ outputs.memory = fwd_memory
        /\ inputs.shape = last.shape
        /\ outputs.shape = last.shape

\* C6: ParameterBuffer.rearrange with a region that is not the held one
\* succeeds exactly when the region's length is the buffer's size; otherwise
\* it raises the size-mismatch error and leaves the buffer (region and views)
\* as it was.  So a bound ParameterBuffer's region always has length size.
C6_ExactSizing ==
    /\ [](pbuf.memory # None => MemLen(pbuf.memory) = pbuf.size)
    /\ [][(/\ last'.op = "pb_rearrange"
           /\ last'.mem # None
           /\ last'.mem # pbuf.memory) =>
                /\ last'.err = NoErr <=> MemLen(last'.mem) = pbuf.size
                /\ last'.err = NoErr => pbuf'.memory = last'.mem
                /\ last'.err # NoErr =>
                      last'.err = "SizeMismatch" /\ pbuf' = pbuf]_vars

\* C6 witness: a bound ParameterBuffer has just refused a region one element
\* longer than its size.
C6_Witness ==
    /\ last.op = "pb_rearrange"
    /\ last.err = "SizeMismatch"
    /\ MemLen(last.mem) = pbuf.size + 1
    /\ pbuf.memory # None
    /\ pbuf.views # NoViews

\* C7: the first rearrange_parameters allocates a region of length
\* parameters.size and binds it to parameters; afterwards no call of
\* rearrange_parameters, rearrange_fwd or rearrange_bwd changes the parameter
\* region or allocates another.
C7_ParamOnce ==
    /\ [](param_memory # None =>
            /\ parameters.memory = param_memory
            /\ MemLen(param_memory) = parameters.size)
    /\ [][/\ last'.op = "rearrange_parameters" =>
                /\ last'.err = NoErr
                /\ param_memory' # None
                /\ last'.allocs = IF param_memory = None THEN 1 ELSE 0
          /\ param_memory' # param_memory =>
                param_memory = None /\ last'.op = "rearrange_parameters"
          /\ param_memory # None => parameters' = parameters]_vars

\* C7 witness: rearrange_parameters called again, after the forward and the
\* backward regions were allocated, found the region bound and allocated
\* nothing.
C7_Witness ==
    /\ Returned("rearrange_parameters")
    /\ last.allocs = 0
    /\ parameters.memory = param_memory
    /\ param_memory # None
    /\ IsRegion(fwd_memory)
    /\ IsRegion(bwd_memory)

\* the gradient buffer is bound to the manager's gradient region, of length
\* gradient.size
GradientBound ==
    /\ grad_memory # None
    /\ gradient.memory = grad_memory
    /\ MemLen(grad_memory) = gradient.size

\* C8 as stated: after any rearrange_bwd that returns without error, a call
\* made before any rearrange_fwd included, the gradient buffer is bound to a
\* region of length gradient.size.
C8_GradientAfterAnyBwd ==
    Returned("rearrange_bwd") => GradientBound

\* C8, amended: after any rearrange_bwd that returns without error once a
\* rearrange_fwd call has set fwd_shape, the gradient buffer is bound to a
\* region of length gradient.size (a rearrange_bwd before any rearrange_fwd
\* returns at once and binds nothing); once bound, that region is never
\* replaced.
C8_GradientLazy ==
    /\ []((Returned("rearrange_bwd") /\ fwd_shape # NoShape) => GradientBound)
    /\ [][grad_memory # None =>
            /\ grad_memory' = grad_memory
            /\ gradient' = gradient]_vars

\* C8 witness: a backward preparation for a new shape returned with the
\* gradient region already bound, and allocated no other gradient region.
C8_Witness ==
    /\ Returned("rearrange_bwd")
    /\ fwd_shape # NoShape
    /\ GradientBound
    /\ last.laid = {"in_deltas", "out_deltas"}
    /\ gradient.views # NoViews

\* C9: whenever rearrange_bwd returns without error after at least one
\* rearrange_fwd call, bwd_shape is fwd_shape, in_deltas and out_deltas have
\* that shape and are bound to one backward region, of length at least
\* in_deltas.get_size(fwd_shape).
C9_BwdMirrorsFwd ==
    (Returned("rearrange_bwd") /\ fwd_shape # NoShape) =>
        /\ bwd_shape = fwd_shape
        /\ in_deltas.shape = fwd_shape
        /\ out_deltas.shape = fwd_shape
        /\ IsRegion(bwd_memory)
        /\ in_deltas.memory = bwd_memory
        /\ out_deltas.memory = bwd_memory
        /\ MemLen(bwd_memory) >= GetSize(in_deltas, fwd_shape)

\* C10: in every reachable state gradient has the size and the layout of
\* parameters, in_deltas the hub widths and feature ranges of inputs, and
\* out_deltas those of outputs; and these are the layouts the manager was
\* built with.
C10_TwinConsistency ==
    /\ gradient.size = parameters.size
    /\ gradient.layout = parameters.layout
    /\ in_deltas.hub_sizes = inputs.hub_sizes
    /\ in_deltas.layouts = inputs.layouts
    /\ out_deltas.hub_sizes = outputs.hub_sizes
    /\ out_deltas.layouts = outputs.layouts
    /\ parameters.size = ParamLayout.size
    /\ parameters.layout = ParamLayout.layout
    /\ inputs.hub_sizes = HubSizes
    /\ outputs.hub_sizes = HubSizes
    /\ inputs.layouts = SinkHubs
    /\ outputs.layouts = SourceHubs

\* C10 witness: all six buffers are bound and laid out.
C10_Witness ==
    /\ parameters.views # NoViews
    /\ gradient.views # NoViews
    /\ inputs.views # NoViews
    /\ outputs.views # NoViews
    /\ in_deltas.views # NoViews
    /\ out_deltas.views # NoViews

\* the outcome C11 states for b.rearrange(shape, memory): the missing-memory
\* and insufficient-memory errors, and no error in all other cases
StatedOutcome(b, shape, memory) ==
    IF memory = None
    THEN IF b.memory = None THEN "NoMemory"
         ELSE IF MemLen(b.memory) < GetSize(b, shape) THEN "Insufficient"
         ELSE NoErr
    ELSE IF memory # b.memory /\ MemLen(memory) < GetSize(b, shape)
    THEN "Insufficient"
    ELSE NoErr

\* C11: InOutBuffer.rearrange raises the missing-memory error when
\* called without a region and none is bound, the insufficient-memory error
\* when the held region (no region given) or a given region other than the
\* held one is shorter than the new size, and returns without error in all
\* other cases.
C11_ErrorOutcomes ==
    [][last'.op = "io_rearrange" =>
         last'.err = StatedOutcome(buf, last'.shape, last'.mem)]_vars

\* C12: a failing InOutBuffer.rearrange leaves the buffer's shape, size,
\* region and views as before the call, and a failing rearrange_fwd leaves
\* fwd_shape as before the call (here the InOutBuffer is inputs, whose
\* rearrange is the call that fails inside rearrange_fwd).
C12_NoIntermediateState ==
    [][(last'.op = "rearrange_fwd" /\ last'.err # NoErr) =>
         /\ fwd_shape' = fwd_shape
         /\ inputs' = inputs]_vars

\* the offset of hub k of b for shape (T, S): T*S*sum(hub_sizes[0..k-1])
HubOffset(b, k) ==
    b.shape[1] * b.shape[2] * SumSeq(SubSeq(b.hub_sizes, 1, k - 1))

\* C13: after a relayout for shape (T, S), every layer of hub k has a view at
\* offset T*S*sum(hub_sizes[0..k-1]) of the region, over a hub of
\* T*S*hub_sizes[k] elements that ends within the first get_size((T, S))
\* elements, with logical shape (T, S, width of the layer's feature range);
\* the last hub ends exactly at get_size((T, S)).
C13_RelayoutOffsets ==
    (Returned("io_rearrange") /\ last.laid = {"buf"}) =>
        /\ \A k \in DOMAIN buf.hub_sizes :
             \A n \in DOMAIN buf.layouts[k] :
                /\ n \in DOMAIN buf.views
                /\ buf.views[n].mem = buf.memory
                /\ buf.views[n].off = HubOffset(buf, k)
                /\ buf.views[n].hub = buf.hub_sizes[k]
                /\ buf.views[n].off
                     + buf.shape[1] * buf.shape[2] * buf.hub_sizes[k]
                   = HubOffset(buf, k + 1)
                /\ HubOffset(buf, k + 1) <= GetSize(buf, buf.shape)
                /\ buf.views[n].lo = buf.layouts[k][n][1]
                /\ buf.views[n].hi = buf.layouts[k][n][2]
                /\ buf.views[n].hi <= buf.hub_sizes[k]
                /\ buf.views[n].shape =
                     <<buf.shape[1], buf.shape[2],
                       buf.layouts[k][n][2] - buf.layouts[k][n][1]>>
        /\ HubOffset(buf, Len(buf.hub_sizes) + 1) = GetSize(buf, buf.shape)
        /\ GetSize(buf, buf.shape) <= MemLen(buf.memory)

\* C13 witness: a relayout of a non-empty shape in a region longer than the
\* shape needs.
C13_Witness ==
    /\ Returned("io_rearrange")
    /\ last.laid = {"buf"}
    /\ buf.shape[1] * buf.shape[2] >= 1
    /\ GetSize(buf, buf.shape) < MemLen(buf.memory)

FactoryViews(p, memory) ==
    [n \in DOMAIN p.layout |->
        [factory |-> n, mem |-> memory,
         lo |-> p.layout[n][1], hi |-> p.layout[n][2]]]

\* C15: ParameterBuffer.rearrange with a region of the right length that
\* differs by identity from the held one adopts it and applies every layer's
\* view factory to that layer's element range of the new region; with the
\* held region it invokes no factory and leaves region and views unchanged,
\* so that a second rearrange with the same region changes nothing.
C15_ViewsOnRegionChange ==
    /\ [][(last'.op = "pb_rearrange" /\ last'.mem # None) =>
            /\ (last'.mem # pbuf.memory /\ MemLen(last'.mem) = pbuf.size) =>
                 /\ last'.err = NoErr
                 /\ last'.laid = {"pbuf"}
                 /\ pbuf'.memory = last'.mem
                 /\ pbuf'.views = FactoryViews(pbuf, last'.mem)
            /\ last'.mem = pbuf.memory =>
                 /\ last'.err = NoErr
                 /\ last'.laid = {}
                 /\ pbuf' = pbuf]_vars
    /\ [](\A m \in Regions \ {None} :
            ParamRearrange(pbuf, m).err = NoErr =>
               ParamRearrange(ParamRearrange(pbuf, m).buf, m) =
                  [buf |-> ParamRearrange(pbuf, m).buf, err |-> NoErr,
                   laid |-> FALSE])

\* C15 witness: the buffer has just adopted a region and regenerated its
\* views in it.
C15_Witness ==
    /\ Returned("pb_rearrange")
    /\ last.laid = {"pbuf"}
    /\ pbuf.memory = last.mem
    /\ pbuf.views = FactoryViews(pbuf, last.mem)

\* C16: the backward region's length never decreases; rearrange_bwd replaces
\* the backward region only when in_deltas.get_size(fwd_shape) exceeds its
\* length, and keeps the same region otherwise; no other operation replaces
\* it.
C16_BwdGrowthOnly ==
    [][/\ bwd_memory' # bwd_memory =>
            /\ last'.op = "rearrange_bwd"
            /\ GetSize(in_deltas, fwd_shape) > MemLen(bwd_memory)
       /\ (last'.op = "rearrange_bwd"
           /\ fwd_shape # NoShape
           /\ GetSize(in_deltas, fwd_shape) <= MemLen(bwd_memory))
          => bwd_memory' = bwd_memory
       /\ MemLen(bwd_memory') >= MemLen(bwd_memory)]_vars

\* C16 witness: rearrange_bwd has just re-carved a backward region that is
\* longer than the new shape needs.
C16_Witness ==
    /\ Returned("rearrange_bwd")
    /\ last.allocs = 0
    /\ "in_deltas" \in last.laid
    /\ IsRegion(bwd_memory)
    /\ GetSize(in_deltas, bwd_shape) < MemLen(bwd_memory)

\* C17: the region bound to gradient is never the region bound to parameters,
\* the region bound to in_deltas or out_deltas is never the region bound to
\* inputs or outputs, and a step that changes a twin buffer leaves the buffer
\* it was copied from unchanged.
C17_IndependentRegions ==
    /\ [](/\ gradient.memory # None => gradient.memory # parameters.memory
          /\ IsRegion(grad_memory) => grad_memory # param_memory
          /\ \A d \in {in_deltas, out_deltas} : \A x \in {inputs, outputs} :
                d.memory # None => d.memory # x.memory
          /\ IsRegion(bwd_memory) => bwd_memory # fwd_memory)
    /\ [][/\ gradient' # gradient => parameters' = parameters
          /\ (in_deltas' # in_deltas \/ out_deltas' # out_deltas) =>
                (inputs' = inputs /\ outputs' = outputs)]_vars

\* C17 witness: all four regions are bound, and the backward region is as
\* long as the forward region and the gradient region as long as the
\* parameter region.
C17_Witness ==
    /\ parameters.memory # None
    /\ gradient.memory = grad_memory
    /\ IsRegion(grad_memory)
    /\ MemLen(grad_memory) = MemLen(param_memory)
    /\ inputs.memory = fwd_memory
    /\ in_deltas.memory = bwd_memory
    /\ IsRegion(bwd_memory)
    /\ MemLen(bwd_memory) = MemLen(fwd_memory)
    /\ MemLen(bwd_memory) > 0

\* C18: rearrange_fwd leaves bwd_shape, the parameter, gradient and backward
\* regions and the buffers parameters, gradient, in_deltas and out_deltas
\* unchanged; rearrange_bwd leaves fwd_shape, the parameter and forward
\* regions and the buffers parameters, inputs and outputs unchanged;
\* rearrange_parameters leaves everything but the parameter region and the
\* parameters buffer unchanged.
C18_Frame ==
    [][/\ last'.op = "rearrange_fwd" =>
            UNCHANGED <<bwd_shape, param_memory, grad_memory, bwd_memory,
                        parameters, gradient, in_deltas, out_deltas>>
       /\ last'.op = "rearrange_bwd" =>
            UNCHANGED <<fwd_shape, param_memory, fwd_memory,
                        parameters, inputs, outputs>>
       /\ last'.op = "rearrange_parameters" =>
            UNCHANGED <<gradient, inputs, outputs, in_deltas, out_deltas,
                        fwd_shape, bwd_shape, grad_memory, fwd_memory,
                        bwd_memory>>]_vars

\* C18 witness: rearrange_parameters has just allocated the parameter region
\* in a manager whose gradient, forward and backward regions are bound.
C18_Witness ==
    /\ Returned("rearrange_parameters")
    /\ last.allocs = 1
    /\ gradient.memory # None
    /\ inputs.memory # None
    /\ in_deltas.memory # None
    /\ MemLen(fwd_memory) > 0

\* C19: every rearrange_fwd call on a manager built by create_from_layers
\* returns without error, the first call on a fresh manager included.
C19_FwdNeverFails == last.op = "rearrange_fwd" => last.err = NoErr

\* C20: the backward region is never longer than the forward region.
C20_BwdWithinFwd == MemLen(bwd_memory) <= MemLen(fwd_memory)

\* C20 witness: a backward region is bound and is shorter than the forward
\* region, which has grown since.
C20_Witness ==
    /\ IsRegion(bwd_memory)
    /\ MemLen(bwd_memory) > 0
    /\ MemLen(bwd_memory) < MemLen(fwd_memory)

====
